---- MODULE Spec2Model ----
(***************************************************************************)
(* Model of the UDP rendezvous / hole-punching chat of src/main.go:        *)
(* the introducer (room registry, JOIN/LEAVE handlers, broadcast) and the  *)
(* peer (Endpoint Set, receive loop, interactive loop, punch tasks).       *)
(*                                                                         *)
(* A protocol line is a sequence of one-character strings, so that         *)
(* strings.Fields, strings.HasPrefix, strings.Split, sort.Strings and the  *)
(* formatting and parsing of endpoints are computed as the code computes   *)
(* them.                                                                   *)
(***************************************************************************)
EXTENDS Integers, Sequences, FiniteSets, Bags, TLC

(***************************************************************************)
(* Strings                                                                 *)
(***************************************************************************)

\* The characters of the model in byte order (ASCII), as Go compares strings.
Alphabet ==
    << " ", ",", "-", ".", "/", "0", "1", "2", "3", "4", "5", "6", "7", "8", "9",
       ":", "A", "B", "C", "E", "G", "H", "I", "J", "K", "L", "M", "N", "O", "P",
       "R", "S", "U", "V", "Y", "a", "e", "h", "i", "j", "k", "l", "n", "o", "p",
       "r", "s", "v", "x" >>

Ord(c) == CHOOSE i \in 1..Len(Alphabet) : Alphabet[i] = c

Digits == << "0", "1", "2", "3", "4", "5", "6", "7", "8", "9" >>

IsDigit(c) == \E i \in 1..10 : Digits[i] = c

DigitVal(c) == (CHOOSE i \in 1..10 : Digits[i] = c) - 1

\* unicode.IsSpace on the characters of the model
IsSpace(c) == c = " "

\* byte-wise s < t
RECURSIVE StrLess(_, _)
StrLess(s, t) ==
    IF t = << >> THEN FALSE
    ELSE IF s = << >> THEN TRUE
    ELSE IF Head(s) = Head(t) THEN StrLess(Tail(s), Tail(t))
    ELSE Ord(Head(s)) < Ord(Head(t))

\* strconv.Itoa / %d for n >= 0
RECURSIVE Itoa(_)
Itoa(n) == IF n < 10 THEN << Digits[n + 1] >>
           ELSE Itoa(n \div 10) \o << Digits[(n % 10) + 1] >>

\* the value of a non-empty string of digits
RECURSIVE DigitsVal(_)
DigitsVal(s) == IF s = << >> THEN 0
                ELSE DigitsVal(SubSeq(s, 1, Len(s) - 1)) * 10 + DigitVal(s[Len(s)])

AllDigits(s) == s # << >> /\ \A i \in 1..Len(s) : IsDigit(s[i])

HasPrefix(s, p) == Len(s) >= Len(p) /\ SubSeq(s, 1, Len(p)) = p

TrimPrefix(s, p) == IF HasPrefix(s, p) THEN SubSeq(s, Len(p) + 1, Len(s)) ELSE s

RECURSIVE TrimLeft(_)
TrimLeft(s) == IF s # << >> /\ IsSpace(Head(s)) THEN TrimLeft(Tail(s)) ELSE s

RECURSIVE TrimRight(_)
TrimRight(s) == IF s # << >> /\ IsSpace(s[Len(s)])
                THEN TrimRight(SubSeq(s, 1, Len(s) - 1)) ELSE s

TrimSpace(s) == TrimRight(TrimLeft(s))

\* strings.Split(s, sep) for a one-character sep: empty tokens are kept
RECURSIVE SplitAcc(_, _, _)
SplitAcc(s, sep, cur) ==
    IF s = << >> THEN << cur >>
    ELSE IF Head(s) = sep THEN << cur >> \o SplitAcc(Tail(s), sep, << >>)
    ELSE SplitAcc(Tail(s), sep, Append(cur, Head(s)))

Split(s, sep) == SplitAcc(s, sep, << >>)

\* strings.Fields: split around runs of white space, no empty tokens
Fields(s) == SelectSeq(Split(s, " "), LAMBDA t : t # << >>)

\* strings.Join
RECURSIVE Join(_, _)
Join(ts, sep) == IF ts = << >> THEN << >>
                 ELSE IF Len(ts) = 1 THEN ts[1]
                 ELSE ts[1] \o sep \o Join(Tail(ts), sep)

UpperOf(c) ==
    CASE c = "j" -> "J" [] c = "o" -> "O" [] c = "i" -> "I" [] c = "n" -> "N"
      [] c = "l" -> "L" [] c = "e" -> "E" [] c = "a" -> "A" [] c = "v" -> "V"
      [] c = "h" -> "H" [] c = "k" -> "K" [] c = "p" -> "P" [] c = "r" -> "R"
      [] c = "s" -> "S" [] c = "x" -> "X"
      [] OTHER -> c

ToUpper(s) == [i \in 1..Len(s) |-> UpperOf(s[i])]

\* sort.Strings on a set of distinct strings
RECURSIVE SortStrings(_)
SortStrings(S) ==
    IF S = {} THEN << >>
    ELSE LET m == CHOOSE x \in S : \A y \in S \ {x} : StrLess(x, y)
         IN  << m >> \o SortStrings(S \ {m})

(***************************************************************************)
(* Endpoints                                                               *)
(***************************************************************************)

ColonStr == << ":" >>

CommaStr == << "," >>

SpaceStr == << " " >>

IP1 == << "1", ".", "1", ".", "1", ".", "1" >>

IP2 == << "1", ".", "1", ".", "1", ".", "2" >>

\* The IP literals of the model; any other host text does not resolve.
IPLiterals == {IP1, IP2}

\* Highest UDP port
MaxPort == 65535

\* Three endpoints whose order as strings ("1.1.1.1:10" < "1.1.1.1:9" <
\* "1.1.1.2:7") differs from their order as numbers.
EpA == [ip |-> IP1, port |-> 9]

EpB == [ip |-> IP1, port |-> 10]

EpC == [ip |-> IP2, port |-> 7]

Endpoints == {EpA, EpB, EpC}

\* (*net.UDPAddr).String(): the canonical string "ip:port"
AddrString(a) == a.ip \o ColonStr \o Itoa(a.port)

(***************************************************************************)
(* Introducer                                                              *)
(***************************************************************************)

sJOIN == << "J", "O", "I", "N" >>

sLEAVE == << "L", "E", "A", "V", "E" >>

sYOUARE == << "Y", "O", "U", "A", "R", "E" >>

sPEERS == << "P", "E", "E", "R", "S" >>

sPEERJOIN == << "P", "E", "E", "R", "J", "O", "I", "N" >>

RoomR == << "r" >>

RoomS == << "s" >>

RoomKeys == {RoomR, RoomS}

lineJoinRA == sJOIN \o SpaceStr \o RoomR \o SpaceStr \o << "A" >>

\* lower-case command word
lineJoinRB == << "j", "o", "i", "n" >> \o SpaceStr \o RoomR \o SpaceStr \o << "B" >>

\* surrounding and doubled blanks
lineJoinRC == SpaceStr \o sJOIN \o SpaceStr \o SpaceStr \o RoomR \o SpaceStr \o << "C" >> \o SpaceStr

lineJoinSA == sJOIN \o SpaceStr \o RoomS \o SpaceStr \o << "A" >>

lineLeaveR == sLEAVE \o SpaceStr \o RoomR

lineLeaveS == sLEAVE \o SpaceStr \o RoomS

\* JOIN without a name
lineJoinNoName == sJOIN \o SpaceStr \o RoomR

\* LEAVE without a room
lineLeaveNoRoom == sLEAVE

\* an unknown command
linePing == << "P", "I", "N", "G" >> \o SpaceStr \o RoomR \o SpaceStr \o << "A" >>

\* Datagrams the introducer may receive: source endpoint and text as received
\* (untrimmed).
IntroInputs ==
    { << EpA, lineJoinRA >>, << EpB, lineJoinRB >>, << EpC, lineJoinRC >>,
      << EpA, lineJoinSA >>,
      << EpA, lineLeaveR >>, << EpB, lineLeaveR >>, << EpC, lineLeaveR >>,
      << EpA, lineLeaveS >>,
      << EpC, lineJoinNoName >>, << EpC, lineLeaveNoRoom >>, << EpC, linePing >> }

\* Handlers that may be running at the same time
MaxActive == 2

VARIABLES
    rooms,      \* introducer.rooms: room key -> (canonical string -> endpoint)
    mu,         \* introducer.mu is held
    handlers,   \* bag of running goroutines of introducer.handle
    joined,     \* history: room key -> endpoints inserted and not removed since
    cfg,        \* runPeer's arguments: name, introducer address, manual address
    addrs,      \* peerSet.addrs: canonical string -> endpoint
    rx,         \* the receive goroutine: "off", "read" or "failed"
    errs,       \* number of errors buffered in the channel errs (capacity 1)
    main,       \* the interactive loop of runPeer
    tasks,      \* the goroutines started by "go punch(conn, a)", in start order
    lastAcks,   \* history: the datagrams the last receive iteration sent
    lastEvent,  \* history: what the last receive iteration displayed
    procs       \* the peers of a room: observed endpoint -> its process

ivars == << rooms, mu, handlers, joined >>

pvars == << cfg, addrs, rx, errs, main, tasks, lastAcks, lastEvent, procs >>

vars == << rooms, mu, handlers, joined, cfg, addrs, rx, errs, main, tasks, lastAcks,
          lastEvent, procs >>

\* A goroutine started by "go intr.handle(from, msg)"
NewHandler(from, msg) ==
    [ from |-> from, msg |-> msg, pc |-> "start",
      cmd |-> << >>, room |-> << >>, name |-> << >>,
      peers |-> << >>, addrs |-> << >>,
      out |-> << >>, seen |-> {}, seenB |-> {}, fresh |-> FALSE,
      members |-> {}, sole |-> FALSE, emptied |-> FALSE ]

Running == BagToSet(handlers)

Replace(h, g) == (handlers (-) SetToBag({h})) (+) SetToBag({g})

\* in.reply(to, msg): one datagram on the wire, recorded in the handler's trace
Reply(h, to, line) == Append(h.out, [to |-> to, line |-> line])

\* runIntroducer's loop: read a datagram, trim it, start a handler
Receive(from, raw) ==
    /\ BagCardinality(handlers) < MaxActive
    /\ handlers' = handlers (+) SetToBag({NewHandler(from, TrimSpace(raw))})
    /\ UNCHANGED << rooms, mu, joined, pvars >>

\* a Dispatch without the len(parts) < 3 test: a JOIN without a name is
\* handled with an empty name
DispatchNoNameCheck(h) ==
    /\ h.pc = "start"
    /\ LET parts == Fields(h.msg)
           cmd == ToUpper(parts[1])
           ret == Replace(h, [h EXCEPT !.pc = "done"])
       IN  IF Len(parts) < 2 THEN handlers' = ret
           ELSE IF cmd = sJOIN
                THEN handlers' = Replace(h, [h EXCEPT !.pc = "j_lock", !.cmd = cmd,
                                   !.room = parts[2],
                                   !.name = IF Len(parts) < 3 THEN << >> ELSE parts[3]])
           ELSE IF cmd = sLEAVE
                THEN handlers' = Replace(h, [h EXCEPT !.pc = "l_lock", !.cmd = cmd,
                                                      !.room = parts[2]])
           ELSE handlers' = ret
    /\ UNCHANGED << rooms, mu, joined, pvars >>

\* handle: split the message and select the command; a message that is
\* too short or names no known command takes the handler to its return
Dispatch(h) ==
    /\ h.pc = "start"
    /\ LET parts == Fields(h.msg)
           cmd == ToUpper(parts[1])
           ret == Replace(h, [h EXCEPT !.pc = "done"])
       IN  IF Len(parts) < 2 THEN handlers' = ret
           ELSE IF cmd = sJOIN
                THEN IF Len(parts) < 3 THEN handlers' = ret
                     ELSE handlers' = Replace(h, [h EXCEPT !.pc = "j_lock", !.cmd = cmd,
                                                  !.room = parts[2], !.name = parts[3]])
           ELSE IF cmd = sLEAVE
                THEN handlers' = Replace(h, [h EXCEPT !.pc = "l_lock", !.cmd = cmd,
                                                      !.room = parts[2]])
           ELSE handlers' = ret
    /\ UNCHANGED << rooms, mu, joined, pvars >>

\* in.mu.Lock() of the JOIN, LEAVE and broadcast sections
Lock(h) ==
    /\ h.pc \in {"j_lock", "l_lock", "b_lock"}
    /\ ~mu
    /\ mu' = TRUE
    /\ handlers' = Replace(h, [h EXCEPT !.pc =
                       CASE h.pc = "j_lock" -> "j_crit"
                         [] h.pc = "l_lock" -> "l_crit"
                         [] h.pc = "b_lock" -> "b_crit"])
    /\ UNCHANGED << rooms, joined, pvars >>

\* an insert that appends: the entry is keyed by its position, not by the
\* canonical string
InsertMemberAppend(reg, room, key, from) ==
    LET rs == IF room \in DOMAIN reg THEN reg[room] ELSE << >>
        pos == Itoa(Cardinality(DOMAIN rs))
        rs2 == [k \in DOMAIN rs \cup {pos} |-> IF k = pos THEN from ELSE rs[k]]
    IN  [r \in DOMAIN reg \cup {room} |-> IF r = room THEN rs2 ELSE reg[r]]

\* rs.peers[key] = from, creating the room when it is absent
InsertMember(reg, room, key, from) ==
    LET rs == IF room \in DOMAIN reg THEN reg[room] ELSE << >>
        rs2 == [k \in DOMAIN rs \cup {key} |-> IF k = key THEN from ELSE rs[k]]
    IN  [r \in DOMAIN reg \cup {room} |-> IF r = room THEN rs2 ELSE reg[r]]

\* Snapshot that keeps the joiner's own key
SnapshotWithSelf(rs, key) == SortStrings(DOMAIN rs)

\* the sorted snapshot of the other members' keys
Snapshot(rs, key) == SortStrings(DOMAIN rs \ {key})

\* a JOIN critical section that sends YOUARE before it unlocks
JoinCritThenReply(h) ==
    /\ h.pc = "j_crit"
    /\ LET key == AddrString(h.from)
           reg == InsertMember(rooms, h.room, key, h.from)
       IN  /\ rooms' = reg
           /\ UNCHANGED pvars
           /\ handlers' = Replace(h, [h EXCEPT !.pc = "peers",
                              !.peers = Snapshot(reg[h.room], key),
                              !.seen = joined[h.room],
                              !.members = DOMAIN reg[h.room],
                              !.fresh = h.room \notin DOMAIN rooms,
                              !.out = Reply(h, h.from, sYOUARE \o SpaceStr \o AddrString(h.from))])
    /\ joined' = [joined EXCEPT ![h.room] = @ \cup {h.from}]
    /\ mu' = FALSE

\* the JOIN critical section
JoinCrit(h) ==
    /\ h.pc = "j_crit"
    /\ LET key == AddrString(h.from)
           reg == InsertMember(rooms, h.room, key, h.from)
       IN  /\ rooms' = reg
           /\ UNCHANGED pvars
           /\ handlers' = Replace(h, [h EXCEPT !.pc = "youare",
                              !.peers = Snapshot(reg[h.room], key),
                              !.seen = joined[h.room],
                              !.members = DOMAIN reg[h.room],
                              !.fresh = h.room \notin DOMAIN rooms])
    /\ joined' = [joined EXCEPT ![h.room] = @ \cup {h.from}]
    /\ mu' = FALSE

\* in.reply(from, "YOUARE <from>")
SendYouAre(h) ==
    /\ h.pc = "youare"
    /\ handlers' = Replace(h, [h EXCEPT !.pc = "peers",
                       !.out = Reply(h, h.from, sYOUARE \o SpaceStr \o AddrString(h.from))])
    /\ UNCHANGED << rooms, mu, joined, pvars >>

\* SendPeers without the len(peers) > 0 test
SendPeersAlways(h) ==
    /\ h.pc = "peers"
    /\ handlers' = Replace(h, [h EXCEPT !.pc = "b_lock",
                       !.out = Reply(h, h.from, sPEERS \o SpaceStr \o Join(h.peers, CommaStr))])
    /\ UNCHANGED << rooms, mu, joined, pvars >>

\* if len(peers) > 0 { in.reply(from, "PEERS <list>") }
SendPeers(h) ==
    /\ h.pc = "peers"
    /\ handlers' = Replace(h, [h EXCEPT !.pc = "b_lock",
                       !.out = IF Len(h.peers) > 0
                               THEN Reply(h, h.from, sPEERS \o SpaceStr \o Join(h.peers, CommaStr))
                               ELSE h.out])
    /\ UNCHANGED << rooms, mu, joined, pvars >>

\* the orders in which a range over a map may visit the set S
Orders(S) ==
    { s \in [1..Cardinality(S) -> S] : \A i, j \in 1..Cardinality(S) : s[i] = s[j] => i = j }

\* recipients without the test against except
RecipientsAll(rs, except) == { rs[k] : k \in DOMAIN rs }

\* the members broadcast sends to: all but the one whose string is except's
Recipients(rs, except) ==
    { rs[k] : k \in { x \in DOMAIN rs : AddrString(rs[x]) # AddrString(except) } }

\* broadcast's critical section
BcastCrit(h) ==
    /\ h.pc = "b_crit"
    /\ \E order \in Orders(IF h.room \in DOMAIN rooms
                              THEN Recipients(rooms[h.room], h.from) ELSE {}) :
           handlers' = Replace(h, [h EXCEPT !.pc = "b_send", !.addrs = order,
                                            !.seenB = joined[h.room]])
    /\ mu' = FALSE
    /\ UNCHANGED << rooms, joined, pvars >>

\* broadcast's send loop, one in.reply per step
BcastSend(h) ==
    /\ h.pc = "b_send"
    /\ h.addrs # << >>
    /\ handlers' = Replace(h,
           [h EXCEPT !.addrs = Tail(h.addrs),
                     !.out = Reply(h, Head(h.addrs),
                                   sPEERJOIN \o SpaceStr \o h.name \o SpaceStr
                                       \o AddrString(h.from))])
    /\ UNCHANGED << rooms, mu, joined, pvars >>

\* the send loop is over: broadcast and the JOIN handler return
JoinReturn(h) ==
    /\ h.pc = "b_send"
    /\ h.addrs = << >>
    /\ handlers' = handlers (-) SetToBag({h})
    /\ UNCHANGED << rooms, mu, joined, pvars >>

\* RemoveMember that keeps the emptied room registered
RemoveMemberKeepRoom(reg, room, key) ==
    IF room \notin DOMAIN reg THEN reg
    ELSE [reg EXCEPT ![room] = [k \in DOMAIN reg[room] \ {key} |-> reg[room][k]]]

\* a removal that tests len(rs.peers) == 0 before the delete
RemoveMemberTestFirst(reg, room, key) ==
    IF room \notin DOMAIN reg THEN reg
    ELSE LET rs == reg[room]
             rs2 == [k \in DOMAIN rs \ {key} |-> rs[k]]
         IN  IF DOMAIN rs = {}
             THEN [r \in DOMAIN reg \ {room} |-> reg[r]]
             ELSE [reg EXCEPT ![room] = rs2]

\* delete(rs.peers, key); the room goes when it is empty
RemoveMember(reg, room, key) ==
    IF room \notin DOMAIN reg THEN reg
    ELSE LET rs == reg[room]
             rs2 == [k \in DOMAIN rs \ {key} |-> rs[k]]
         IN  IF DOMAIN rs2 = {}
             THEN [r \in DOMAIN reg \ {room} |-> reg[r]]
             ELSE [reg EXCEPT ![room] = rs2]

\* the LEAVE critical section
LeaveCrit(h) ==
    /\ h.pc = "l_crit"
    /\ rooms' = RemoveMember(rooms, h.room, AddrString(h.from))
    /\ UNCHANGED pvars
    /\ handlers' = Replace(h, [h EXCEPT !.pc = "done",
                       !.sole = /\ h.room \in DOMAIN rooms
                                /\ DOMAIN rooms[h.room] = {AddrString(h.from)},
                       !.emptied = h.room \in DOMAIN rooms /\ h.room \notin DOMAIN rooms'])
    /\ joined' = [joined EXCEPT ![h.room] = @ \ {h.from}]
    /\ mu' = FALSE

\* the handler of a LEAVE or of a rejected message returns
LeaveReturn(h) ==
    /\ h.pc = "done"
    /\ handlers' = handlers (-) SetToBag({h})
    /\ UNCHANGED << rooms, mu, joined, pvars >>

IntroInit ==
    /\ rooms = << >>
    /\ mu = FALSE
    /\ handlers = EmptyBag
    /\ joined = [r \in RoomKeys |-> {}]

IntroNext ==
    \/ \E in \in IntroInputs : Receive(in[1], in[2])
    \/ \E h \in Running : Dispatch(h)
    \/ \E h \in Running : Lock(h)
    \/ \E h \in Running : JoinCrit(h)
    \/ \E h \in Running : SendYouAre(h)
    \/ \E h \in Running : SendPeers(h)
    \/ \E h \in Running : BcastCrit(h)
    \/ \E h \in Running : BcastSend(h)
    \/ \E h \in Running : JoinReturn(h)
    \/ \E h \in Running : LeaveCrit(h)
    \/ \E h \in Running : LeaveReturn(h)

(***************************************************************************)
(* Peer                                                                    *)
(***************************************************************************)

sPUNCH == << "P", "U", "N", "C", "H" >>

sPUNCHACK == << "P", "U", "N", "C", "H", "-", "A", "C", "K" >>

sMSG == << "M", "S", "G" >>

sHello == << "h", "e", "l", "l", "o" >>

sKeepalive == << "k", "e", "e", "p", "a", "l", "i", "v", "e" >>

\* "PUNCH hello <i>"
HelloLine(i) == sPUNCH \o SpaceStr \o sHello \o SpaceStr \o Itoa(i)

\* "PUNCH keepalive"
KeepaliveLine == sPUNCH \o SpaceStr \o sKeepalive

\* number of probes of a burst
BurstLen == 8

\* the nil *net.UDPAddr
NoAddr == [ip |-> << >>, port |-> 0]

\* the introducer's endpoint
EpI == [ip |-> IP2, port |-> 3478]

\* the peer's display name
PeerName == << "P" >>

\* a text that is no address
sBogus == << "x", ":", "y" >>

\* values time.Now().UnixNano() may return
NowValues == {7}

\* the configurations of runPeer: introducer address and manual address
PeerConfigs ==
    { [name |-> PeerName, introducer |-> EpI, manual |-> << >>],
      [name |-> PeerName, introducer |-> EpI, manual |-> AddrString(EpA)],
      [name |-> PeerName, introducer |-> NoAddr, manual |-> AddrString(EpA)],
      [name |-> PeerName, introducer |-> NoAddr, manual |-> sBogus] }

\* punch goroutines the peer may have started
MaxTasks == 2

\* the index of the last c in s, 0 when there is none
RECURSIVE LastIndex(_, _)
LastIndex(s, c) == IF s = << >> THEN 0
                   ELSE IF s[Len(s)] = c THEN Len(s)
                   ELSE LastIndex(SubSeq(s, 1, Len(s) - 1), c)

\* net.ResolveUDPAddr("udp", s) for "host:port" with a literal IP as host
\* and a decimal port
ResolveUDPAddr(s) ==
    LET i == LastIndex(s, ":")
        host == SubSeq(s, 1, i - 1)
        port == SubSeq(s, i + 1, Len(s))
        ok == i > 0 /\ host \in IPLiterals /\ AllDigits(port) /\ DigitsVal(port) <= MaxPort
    IN  [ok |-> ok, addr |-> IF ok THEN [ip |-> host, port |-> DigitsVal(port)] ELSE NoAddr]

\* an add that drops what the set held
AddForgetful(m, a) == [k \in {AddrString(a)} |-> a]

\* peerSet.add
Add(m, a) == [k \in DOMAIN m \cup {AddrString(a)} |-> IF k = AddrString(a) THEN a ELSE m[k]]

RECURSIVE AddAll(_, _)
AddAll(m, as) == IF as = << >> THEN m ELSE AddAll(Add(m, Head(as)), Tail(as))

\* a list sorted by port number instead of by canonical string
ListByPort(m) ==
    LET S == { m[k] : k \in DOMAIN m }
    IN  CHOOSE s \in Orders(S) : \A i, j \in 1..Len(s) : i < j => s[i].port <= s[j].port

\* peerSet.list: the endpoints sorted by their strings
List(m) ==
    LET sorted == SortStrings({ AddrString(m[k]) : k \in DOMAIN m })
    IN  [i \in 1..Len(sorted) |->
            CHOOSE a \in { m[k] : k \in DOMAIN m } : AddrString(a) = sorted[i]]

\* a goroutine started by "go punch(conn, to)"
NewTask(to) == [to |-> to, phase |-> "burst", log |-> << >>, tick |-> 0]

NewTasks(as) == [k \in 1..Len(as) |-> NewTask(as[k])]

\* what one iteration of the receive loop does
Effect(learn, punch, acks, event) ==
    [learn |-> learn, punch |-> punch, acks |-> acks, event |-> event]

\* a token loop that ends at the first token that does not resolve
RECURSIVE PeersTokensStopAtBad(_)
PeersTokensStopAtBad(ts) ==
    IF ts = << >> THEN << >>
    ELSE LET t == TrimSpace(Head(ts))
             r == ResolveUDPAddr(t)
         IN  IF t = << >> THEN PeersTokensStopAtBad(Tail(ts))
             ELSE IF r.ok THEN << r.addr >> \o PeersTokensStopAtBad(Tail(ts))
             ELSE << >>

\* the endpoints a PEERS list adds: trimmed, non-empty, resolvable tokens
RECURSIVE PeersTokens(_)
PeersTokens(ts) ==
    IF ts = << >> THEN << >>
    ELSE LET t == TrimSpace(Head(ts))
             r == ResolveUDPAddr(t)
         IN  IF t = << >> THEN PeersTokens(Tail(ts))
             ELSE IF r.ok THEN << r.addr >> \o PeersTokens(Tail(ts))
             ELSE PeersTokens(Tail(ts))

\* HandleIntroducer that ignores PEERJOIN lines
HandleIntroducerPeersOnly(line) ==
    IF HasPrefix(line, sYOUARE \o SpaceStr) THEN Effect(<< >>, << >>, << >>, "youare")
    ELSE IF HasPrefix(line, sPEERS \o SpaceStr)
         THEN LET as == PeersTokens(Split(TrimPrefix(line, sPEERS \o SpaceStr), ","))
              IN  Effect(as, as, << >>, "none")
    ELSE Effect(<< >>, << >>, << >>, "none")

\* handleIntroducer
HandleIntroducer(line) ==
    IF HasPrefix(line, sYOUARE \o SpaceStr) THEN Effect(<< >>, << >>, << >>, "youare")
    ELSE IF HasPrefix(line, sPEERS \o SpaceStr)
         THEN LET as == PeersTokens(Split(TrimPrefix(line, sPEERS \o SpaceStr), ","))
              IN  Effect(as, as, << >>, "none")
    ELSE IF HasPrefix(line, sPEERJOIN \o SpaceStr)
         THEN LET parts == Fields(line)
                  r == ResolveUDPAddr(parts[3])
              IN  IF Len(parts) >= 3
                  THEN IF r.ok THEN Effect(<< r.addr >>, << r.addr >>, << >>, "peerjoin")
                       ELSE Effect(<< >>, << >>, << >>, "peerjoin")
                  ELSE Effect(<< >>, << >>, << >>, "none")
    ELSE Effect(<< >>, << >>, << >>, "none")

\* "PUNCH-ACK <name> <now>"
AckLine(name, now) == sPUNCHACK \o SpaceStr \o name \o SpaceStr \o Itoa(now)

\* PeerData that also starts a punch task toward the sender of a probe
PeerDataPunchBack(from, line, name, now) ==
    IF HasPrefix(line, sPUNCH)
    THEN Effect(<< from >>, << from >>, << [to |-> from, line |-> AckLine(name, now)] >>, "none")
    ELSE Effect(<< >>, << >>, << >>, "debug")

\* PeerData that obeys PEERS and PEERJOIN lines of any sender
PeerDataTrusting(from, line, name, now) ==
    IF HasPrefix(line, sPUNCH)
    THEN Effect(<< from >>, << >>, << [to |-> from, line |-> AckLine(name, now)] >>, "none")
    ELSE IF HasPrefix(line, sPEERS \o SpaceStr) \/ HasPrefix(line, sPEERJOIN \o SpaceStr)
         THEN HandleIntroducer(line)
    ELSE IF HasPrefix(line, sMSG \o SpaceStr)
         THEN Effect(<< >>, << >>, << >>, "chat")
    ELSE Effect(<< >>, << >>, << >>, "debug")

\* the receive loop's handling of a datagram that is not from the introducer
PeerData(from, line, name, now) ==
    IF HasPrefix(line, sPUNCH)
    THEN Effect(<< from >>, << >>, << [to |-> from, line |-> AckLine(name, now)] >>, "none")
    ELSE IF HasPrefix(line, sPUNCHACK)
         THEN Effect(<< from >>, << >>, << >>, "none")
    ELSE IF HasPrefix(line, sMSG \o SpaceStr)
         THEN Effect(<< >>, << >>, << >>, "chat")
    ELSE Effect(<< >>, << >>, << >>, "debug")

Exited == main.pc = "exit"

\* a comparison of the pointers, which are never the same
FromIntroducerByPointer(from) == FALSE

FromIntroducer(from) ==
    cfg.introducer # NoAddr /\ AddrString(from) = AddrString(cfg.introducer)

\* the values main takes
MainAt(pc) == [pc |-> pc, ls |-> << >>, snap |-> {}, sent |-> << >>,
               notice |-> FALSE, result |-> "none"]

MainExit(result) == [MainAt("exit") EXCEPT !.result = result]

\* runPeer up to the start of the receive goroutine: JOIN to the introducer,
\* the manual peer; joinOk is whether the JOIN could be written
PeerStart(joinOk) ==
    /\ main.pc = "boot"
    /\ IF cfg.introducer # NoAddr /\ ~joinOk
       THEN /\ main' = MainExit("join")
            /\ UNCHANGED << addrs, tasks, rx >>
       ELSE LET r == ResolveUDPAddr(cfg.manual)
            IN  /\ main' = MainAt("scan")
                /\ rx' = "read"
                /\ IF cfg.manual # << >> /\ r.ok
                   THEN addrs' = Add(addrs, r.addr) /\ tasks' = Append(tasks, NewTask(r.addr))
                   ELSE UNCHANGED << addrs, tasks >>
    /\ UNCHANGED << cfg, errs, lastAcks, lastEvent, ivars, procs >>

\* one iteration of the receive loop on a datagram read from the socket
RecvDatagram(from, raw, now) ==
    /\ rx = "read"
    /\ ~Exited
    /\ LET line == TrimSpace(raw)
           eff == IF FromIntroducer(from) THEN HandleIntroducer(line)
                  ELSE PeerData(from, line, cfg.name, now)
       IN  /\ Len(tasks) + Len(eff.punch) <= MaxTasks
           /\ addrs' = AddAll(addrs, eff.learn)
           /\ tasks' = tasks \o NewTasks(eff.punch)
           /\ lastAcks' = eff.acks
           /\ lastEvent' = eff.event
    /\ UNCHANGED << cfg, rx, errs, main, ivars, procs >>

\* ReadFromUDP fails: the error goes to errs and the goroutine returns
RecvFail ==
    /\ rx = "read"
    /\ ~Exited
    /\ rx' = "failed"
    /\ errs' = errs + 1
    /\ UNCHANGED << cfg, addrs, main, tasks, lastAcks, lastEvent, ivars, procs >>

sQuit == << "/", "q", "u", "i", "t" >>

sPeersCmd == << "/", "p", "e", "e", "r", "s" >>

sHi == << "h", "i" >>

\* "MSG <name>: <text>"
Payload(name, text) == sMSG \o SpaceStr \o name \o ColonStr \o SpaceStr \o text

\* scanner.Scan() returns false
MainEOF ==
    /\ main.pc = "scan"
    /\ main' = MainExit("stdin")
    /\ UNCHANGED << cfg, addrs, rx, errs, tasks, lastAcks, lastEvent, ivars, procs >>

\* the line "/quit"
MainQuit ==
    /\ main.pc = "scan"
    /\ main' = MainExit("nil")
    /\ UNCHANGED << cfg, addrs, rx, errs, tasks, lastAcks, lastEvent, ivars, procs >>

\* the line "/peers": list and continue
MainPeers ==
    /\ main.pc = "scan"
    /\ main' = [MainAt("scan") EXCEPT !.ls = List(addrs)]
    /\ UNCHANGED << cfg, addrs, rx, errs, tasks, lastAcks, lastEvent, ivars, procs >>

\* a chat line: the first peers.list()
MainChat(text) ==
    /\ main.pc = "scan"
    /\ main' = [MainAt("send") EXCEPT !.ls = List(addrs),
                                      !.snap = { addrs[k] : k \in DOMAIN addrs }]
    /\ UNCHANGED << cfg, addrs, rx, errs, tasks, lastAcks, lastEvent, ivars, procs >>

\* a send loop that a failed sendLine ends
MainSendStopOnError(ok) ==
    /\ main.pc = "send"
    /\ main.ls # << >>
    /\ main' = [main EXCEPT !.ls = IF ok THEN Tail(main.ls) ELSE << >>,
                            !.sent = Append(main.sent,
                                [to |-> Head(main.ls), line |-> Payload(cfg.name, sHi),
                                 ok |-> ok])]
    /\ UNCHANGED << cfg, addrs, rx, errs, tasks, lastAcks, lastEvent, ivars, procs >>

\* one sendLine of the send loop; its error is dropped
MainSend(ok) ==
    /\ main.pc = "send"
    /\ main.ls # << >>
    /\ main' = [main EXCEPT !.ls = Tail(main.ls),
                            !.sent = Append(main.sent,
                                [to |-> Head(main.ls), line |-> Payload(cfg.name, sHi),
                                 ok |-> ok])]
    /\ UNCHANGED << cfg, addrs, rx, errs, tasks, lastAcks, lastEvent, ivars, procs >>

\* after the loop: the second peers.list() decides the notice
MainNotice ==
    /\ main.pc = "send"
    /\ main.ls = << >>
    /\ main' = [main EXCEPT !.pc = "select", !.notice = Len(List(addrs)) = 0]
    /\ UNCHANGED << cfg, addrs, rx, errs, tasks, lastAcks, lastEvent, ivars, procs >>

\* select on errs with a default
MainSelect ==
    /\ main.pc = "select"
    /\ IF errs > 0
       THEN errs' = errs - 1 /\ main' = MainExit("err")
       ELSE errs' = errs /\ main' = MainAt("scan")
    /\ UNCHANGED << cfg, addrs, rx, tasks, lastAcks, lastEvent, ivars, procs >>

SetTask(k, t) == [tasks EXCEPT ![k] = t]

\* a loop "for i := 0; i <= 8; i++"
RECURSIVE BurstOneMore(_, _)
BurstOneMore(to, i) ==
    IF i <= BurstLen THEN << [to |-> to, line |-> HelloLine(i)] >> \o BurstOneMore(to, i + 1)
    ELSE << >>

\* punch's loop "for i := 0; i < 8; i++": the lines it sends from i on
RECURSIVE Burst(_, _)
Burst(to, i) ==
    IF i < BurstLen THEN << [to |-> to, line |-> HelloLine(i)] >> \o Burst(to, i + 1)
    ELSE << >>

\* punch(conn, to): the burst, then the keepalive goroutine is started
Punch(k) ==
    /\ ~Exited
    /\ k \in 1..Len(tasks)
    /\ tasks[k].phase = "burst"
    /\ tasks' = SetTask(k, [tasks[k] EXCEPT !.phase = "keepalive",
                                            !.log = Burst(tasks[k].to, 0)])
    /\ UNCHANGED << cfg, addrs, rx, errs, main, lastAcks, lastEvent, ivars, procs >>

\* a keepalive goroutine that stops after its first tick
KeepaliveOnce(k) ==
    /\ ~Exited
    /\ k \in 1..Len(tasks)
    /\ tasks[k].phase = "keepalive"
    /\ tasks[k].tick = 0
    /\ tasks' = SetTask(k, [tasks[k] EXCEPT !.tick = 1,
                     !.log = Append(@, [to |-> tasks[k].to, line |-> KeepaliveLine])])
    /\ UNCHANGED << cfg, addrs, rx, errs, main, lastAcks, lastEvent, ivars, procs >>

\* a tick of the keepalive goroutine's ticker: "PUNCH keepalive"; the trace
\* keeps the first keepalive only
KeepaliveTick(k) ==
    /\ ~Exited
    /\ k \in 1..Len(tasks)
    /\ tasks[k].phase = "keepalive"
    /\ tasks' = SetTask(k, [tasks[k] EXCEPT !.tick = 1 - @,
                     !.log = IF @ # << >> /\ @[Len(@)].line = KeepaliveLine
                             THEN @
                             ELSE Append(@, [to |-> tasks[k].to, line |-> KeepaliveLine])])
    /\ UNCHANGED << cfg, addrs, rx, errs, main, lastAcks, lastEvent, ivars, procs >>

\* datagrams a peer may receive from another peer, as received
PeerLines ==
    { HelloLine(0), KeepaliveLine \o SpaceStr,
      AckLine(<< "B" >>, 7),
      Payload(<< "B" >>, sHi),
      sPEERS \o SpaceStr \o AddrString(EpB),
      << "h", "e", "y" >> }

\* "PEERS 1.1.1.1:9,1.1.1.1:10"
linePeersAB == sPEERS \o SpaceStr \o AddrString(EpA) \o CommaStr \o AddrString(EpB)

\* "PEERS ,x:y, 1.1.1.1:10": an empty token, one that is no address, and an
\* address after a blank
linePeersMixed ==
    sPEERS \o SpaceStr \o CommaStr \o sBogus \o CommaStr \o SpaceStr \o AddrString(EpB)

\* "PEERJOIN A 1.1.1.1:9"
linePeerJoinA == sPEERJOIN \o SpaceStr \o << "A" >> \o SpaceStr \o AddrString(EpA)

\* datagrams a peer may receive from its introducer's address
ControlLines ==
    { sYOUARE \o SpaceStr \o AddrString(EpC),
      linePeersAB,
      linePeersMixed,
      linePeerJoinA,
      sPEERJOIN \o SpaceStr \o << "B" >>,
      sPEERJOIN \o SpaceStr \o << "B" >> \o SpaceStr \o sBogus,
      HelloLine(0), AckLine(<< "I" >>, 7), Payload(<< "I" >>, sHi) }

\* the datagrams the peer's socket may deliver: source and text
PeerInputs ==
    ({EpA} \X PeerLines) \cup ({EpB} \X {HelloLine(7), AckLine(<< "B" >>, 7)})
        \cup ({EpI} \X ControlLines)

PeerInit ==
    /\ cfg \in PeerConfigs
    /\ addrs = << >>
    /\ rx = "off"
    /\ errs = 0
    /\ main = MainAt("boot")
    /\ tasks = << >>
    /\ lastAcks = << >>
    /\ lastEvent = "none"

PeerNext ==
    \/ \E ok \in BOOLEAN : PeerStart(ok)
    \/ \E in \in PeerInputs, now \in NowValues : RecvDatagram(in[1], in[2], now)
    \/ RecvFail
    \/ MainEOF
    \/ MainQuit
    \/ MainPeers
    \/ MainChat(sHi)
    \/ \E ok \in BOOLEAN : MainSend(ok)
    \/ MainNotice
    \/ MainSelect
    \/ \E k \in 1..MaxTasks : Punch(k)
    \/ \E k \in 1..MaxTasks : KeepaliveTick(k)

\* the peer before runPeer is called
PeerIdle ==
    /\ cfg = [name |-> PeerName, introducer |-> NoAddr, manual |-> << >>]
    /\ addrs = << >>
    /\ rx = "off"
    /\ errs = 0
    /\ main = MainAt("boot")
    /\ tasks = << >>
    /\ lastAcks = << >>
    /\ lastEvent = "none"

\* the peers that join one room through the introducer EpI
SysPeers == {EpA, EpB}

\* a peer process of the room: the introducer it was started with, its
\* peerSet, the endpoints it called "go punch" for, in call order, and the
\* introducer's datagrams its receive loop has read (history)
NewProc == [introducer |-> EpI, addrs |-> << >>, tasks |-> << >>, got |-> {}]

ProcsIdle == procs = [p \in SysPeers |-> NewProc]

\* the introducer process
Init == IntroInit /\ PeerIdle /\ ProcsIdle

Next == IntroNext

Spec == Init /\ [][Next]_vars

\* "JOIN <room> A" and "LEAVE <room>" for the rooms of the model
JoinLineOf(room) == IF room = RoomR THEN lineJoinRA ELSE lineJoinSA

LeaveLineOf(room) == IF room = RoomR THEN lineLeaveR ELSE lineLeaveS

\* the read loop receives the one JOIN of the run: nothing was received before
ReceiveJoin(e, room) ==
    /\ handlers = EmptyBag
    /\ rooms = << >>
    /\ Receive(e, JoinLineOf(room))

\* the read loop receives LEAVE <room> from e after it has received e's JOIN
\* for the room, whose handler may still be running; no LEAVE was received
\* before
ReceiveLeave(e, room) ==
    /\ \A h \in Running : h.msg # lineLeaveR /\ h.msg # lineLeaveS
    /\ \/ \E h \in Running : h.from = e /\ h.msg = JoinLineOf(room)
       \/ /\ handlers = EmptyBag
          /\ room \in DOMAIN rooms
          /\ AddrString(e) \in DOMAIN rooms[room]
    /\ Receive(e, LeaveLineOf(room))

\* the introducer on one JOIN and then one LEAVE from the same endpoint for
\* the same room, each handled by its own goroutine; the handler of the
\* LEAVE stays at its return
JoinLeaveNext ==
    \/ \E e \in Endpoints, room \in RoomKeys : ReceiveJoin(e, room)
    \/ \E e \in Endpoints, room \in RoomKeys : ReceiveLeave(e, room)
    \/ \E h \in Running : Dispatch(h)
    \/ \E h \in Running : Lock(h)
    \/ \E h \in Running : JoinCrit(h)
    \/ \E h \in Running : SendYouAre(h)
    \/ \E h \in Running : SendPeers(h)
    \/ \E h \in Running : BcastCrit(h)
    \/ \E h \in Running : JoinReturn(h)
    \/ \E h \in Running : LeaveCrit(h)

SpecJoinLeave == Init /\ [][JoinLeaveNext]_vars

\* the peer process; no introducer runs in it
InitPeer == IntroInit /\ PeerInit /\ ProcsIdle

SpecPeer == InitPeer /\ [][PeerNext]_vars

\* the peer process with every punch and keepalive goroutine scheduled fairly
SpecPeerFair ==
    /\ SpecPeer
    /\ \A k \in 1..MaxTasks :
           WF_vars(Punch(k)) /\ WF_vars(KeepaliveTick(k))

\* the JOINs the peers of the room may send: source as observed, and text
SysJoins == { << EpA, lineJoinRA >>, << EpA, lineJoinSA >>, << EpB, lineJoinRB >> }

\* peer p's JOIN, written by runPeer, is read by the introducer's loop; a
\* peer sends one JOIN, and the handler it starts is not yet returned
SysJoin(p, raw) ==
    /\ p \in SysPeers
    /\ \A h \in Running : h.from # p
    /\ Receive(p, raw)

\* the steps of a JOIN handler up to the end of broadcast's send loop
SysHandlerStep(h) ==
    \/ Dispatch(h)
    \/ Lock(h)
    \/ JoinCrit(h)
    \/ SendYouAre(h)
    \/ SendPeers(h)
    \/ BcastCrit(h)
    \/ BcastSend(h)

\* what peer p's receive loop does with a line whose source is the
\* introducer's socket EpI
SysControl(p, line, now) ==
    IF procs[p].introducer # NoAddr /\ AddrString(EpI) = AddrString(procs[p].introducer)
    THEN HandleIntroducer(line)
    ELSE PeerData(EpI, line, PeerName, now)

\* the receive loop of p after an iteration with the effect eff
SysLearn(p, eff) ==
    [procs[p] EXCEPT !.addrs = AddAll(@, eff.learn), !.tasks = @ \o eff.punch]

\* peer p's receive loop reads the i-th datagram handler h has sent, in any
\* order of arrival
SysDeliver(p, h, i) ==
    /\ i \in 1..Len(h.out)
    /\ h.out[i].to = p
    /\ << h.from, i >> \notin procs[p].got
    /\ \E now \in NowValues :
           procs' = [procs EXCEPT ![p] =
                        [SysLearn(p, SysControl(p, TrimSpace(h.out[i].line), now))
                             EXCEPT !.got = @ \cup {<< h.from, i >>}]]
    /\ UNCHANGED << cfg, addrs, rx, errs, main, tasks, lastAcks, lastEvent, ivars >>

\* peer p's receive loop reads a probe of the punch goroutine q has started
\* toward p
SysProbe(p, q) ==
    /\ p # q
    /\ \E k \in 1..Len(procs[q].tasks) : procs[q].tasks[k] = p
    /\ \E now \in NowValues :
           procs' = [procs EXCEPT ![p] = SysLearn(p, PeerData(q, HelloLine(0), PeerName, now))]
    /\ UNCHANGED << cfg, addrs, rx, errs, main, tasks, lastAcks, lastEvent, ivars >>

SysNext ==
    \/ \E in \in SysJoins : SysJoin(in[1], in[2])
    \/ \E h \in Running : Dispatch(h)
    \/ \E h \in Running : Lock(h)
    \/ \E h \in Running : JoinCrit(h)
    \/ \E h \in Running : SendYouAre(h)
    \/ \E h \in Running : SendPeers(h)
    \/ \E h \in Running : BcastCrit(h)
    \/ \E h \in Running : BcastSend(h)
    \/ \E p \in SysPeers, h \in Running : \E i \in 1..Len(h.out) : SysDeliver(p, h, i)
    \/ \E p \in SysPeers, q \in SysPeers : SysProbe(p, q)

\* a datagram sent to peer p is not yet read: some SysDeliver(p, h, i) is
\* enabled, and taking it changes procs
SysPending(p) ==
    \E h \in Running : \E i \in 1..Len(h.out) :
        h.out[i].to = p /\ << h.from, i >> \notin procs[p].got

\* peer p's receive loop reads one of the datagrams sent to it
SysRead(p) == \E h \in Running : \E i \in 1..Len(h.out) : SysDeliver(p, h, i)

\* the introducer and the peers of a room, no datagram lost: every handler
\* goroutine is scheduled (weak fairness of its steps), and every datagram
\* sent to a peer is read (weak fairness of SysRead, written out with its
\* enabling condition SysPending)
SpecSys ==
    /\ Init
    /\ [][SysNext]_vars
    /\ \A e \in SysPeers :
           /\ WF_vars(\E h \in Running : h.from = e /\ SysHandlerStep(h))
           /\ ([]<>~SysPending(e) \/ []<><<SysRead(e)>>_vars)

(***************************************************************************)
(* Properties of the introducer                                            *)
(***************************************************************************)

JoinHandlers == { h \in Running : h.cmd = sJOIN }

LeaveHandlers == { h \in Running : h.cmd = sLEAVE }

\* the datagrams of a handler's trace whose line starts with p
SentWith(h, p) == SelectSeq(h.out, LAMBDA d : HasPrefix(d.line, p))

StrictlyAscending(ts) == \A i \in 1..(Len(ts) - 1) : StrLess(ts[i], ts[i + 1])

SeqRange(ts) == { ts[i] : i \in 1..Len(ts) }

Strings(S) == { AddrString(e) : e \in S }

\* C1: the PEERS reply of a JOIN lists exactly the canonical strings of the
\* endpoints inserted into the room before the joiner took the registry lock
\* and not removed by a LEAVE since, in ascending order, without duplicates
\* and without the joiner; there is no PEERS reply when there is none.
C1_PeersReply ==
    \A h \in JoinHandlers :
        h.pc \in {"b_lock", "b_crit", "b_send"} =>
            LET others == h.seen \ {h.from}
                sent == SentWith(h, sPEERS \o SpaceStr)
                list == Split(TrimPrefix(sent[1].line, sPEERS \o SpaceStr), ",")
            IN  IF others = {} THEN sent = << >>
                ELSE /\ Len(sent) = 1
                     /\ sent[1].to = h.from
                     /\ SeqRange(list) = Strings(others)
                     /\ StrictlyAscending(list)
                     /\ AddrString(h.from) \notin SeqRange(list)

\* C1 witness: the third joiner of a room was sent the two earlier members,
\* in the order of their strings
C1_Witness ==
    \E h \in JoinHandlers :
        /\ h.from = EpC
        /\ h.seen = {EpA, EpB}
        /\ SentWith(h, sPEERS \o SpaceStr) =
               << [to |-> EpC,
                   line |-> sPEERS \o SpaceStr \o AddrString(EpB) \o CommaStr
                                \o AddrString(EpA)] >>

YouAreOf(h) == [to |-> h.from, line |-> sYOUARE \o SpaceStr \o AddrString(h.from)]

PeerJoinLine(h) ==
    sPEERJOIN \o SpaceStr \o Fields(h.msg)[3] \o SpaceStr \o AddrString(h.from)

\* the expected start of a JOIN handler's trace: YOUARE, then PEERS when
\* the snapshot of the other members is not empty
Head2(h) ==
    IF h.seen \ {h.from} = {} THEN << YouAreOf(h) >>
    ELSE << YouAreOf(h),
            [to |-> h.from,
             line |-> sPEERS \o SpaceStr
                        \o Join(SortStrings(Strings(h.seen \ {h.from})), CommaStr)] >>

\* the trace t continues Head2(h) with PEERJOIN datagrams to distinct members
PeerJoinTail(h, t) ==
    /\ Len(t) >= Len(Head2(h))
    /\ SubSeq(t, 1, Len(Head2(h))) = Head2(h)
    /\ \A i \in (Len(Head2(h)) + 1)..Len(t) :
           /\ t[i].line = PeerJoinLine(h)
           /\ t[i].to \in h.seenB \ {h.from}
           /\ \A j \in (Len(Head2(h)) + 1)..Len(t) : t[i].to = t[j].to => i = j

\* C2: a JOIN handler emits YOUARE to the sender, then PEERS to the sender
\* iff the snapshot of the other members is not empty, then one PEERJOIN
\* <name> <sender> to each other member the room has when broadcast reads it;
\* other handlers emit nothing.
C2_JoinDatagrams ==
    \A h \in Running :
        IF h.cmd # sJOIN THEN h.out = << >>
        ELSE CASE h.pc \in {"j_lock", "j_crit", "youare", "l_lock", "l_crit", "done"} -> h.out = << >>
               [] h.pc = "peers" -> h.out = << YouAreOf(h) >>
               [] h.pc \in {"b_lock", "b_crit"} -> h.out = Head2(h)
               [] h.pc = "b_send" ->
                      /\ PeerJoinTail(h, h.out)
                      /\ { h.out[i].to : i \in (Len(Head2(h)) + 1)..Len(h.out) }
                             \cup SeqRange(h.addrs) = h.seenB \ {h.from}
                      /\ \A i \in (Len(Head2(h)) + 1)..Len(h.out) :
                             h.out[i].to \notin SeqRange(h.addrs)

\* C2 witness: the second joiner of room r was sent YOUARE then PEERS naming
\* the first, and the first joiner's handler sent YOUARE and nothing else.
C2_Witness ==
    /\ \E h \in JoinHandlers :
           /\ h.pc = "b_send" /\ h.addrs = << >> /\ h.from = EpA /\ h.room = RoomR
           /\ h.out = << YouAreOf(h) >>
    /\ \E h \in JoinHandlers :
           /\ h.pc = "b_send" /\ h.addrs = << >> /\ h.from = EpB /\ h.room = RoomR
           /\ h.out = << YouAreOf(h),
                         [to |-> EpB, line |-> sPEERS \o SpaceStr \o AddrString(EpA)],
                         [to |-> EpA, line |-> sPEERJOIN \o SpaceStr \o << "B" >>
                                                 \o SpaceStr \o AddrString(EpB)] >>

RecvStep(in) == \E now \in NowValues : RecvDatagram(in[1], in[2], now)

Known == { addrs[k] : k \in DOMAIN addrs }

\* the line is a probe: "PUNCH hello <n>" or "PUNCH keepalive"
IsProbe(line) ==
    LET parts == Fields(line)
    IN  \/ Len(parts) = 3 /\ parts[1] = sPUNCH /\ parts[2] = sHello /\ AllDigits(parts[3])
        \/ parts = << sPUNCH, sKeepalive >>

\* the datagrams whose line begins with PUNCH-ACK
AckInputs == UNION { IF HasPrefix(TrimSpace(in[2]), sPUNCHACK) THEN {in} ELSE {} : in \in PeerInputs }

\* the datagrams whose line is a probe
ProbeInputs == UNION { IF IsProbe(TrimSpace(in[2])) THEN {in} ELSE {} : in \in PeerInputs }

\* the datagrams whose line begins with "PEERS " or "PEERJOIN "
DiscoveryInputs ==
    UNION { IF \/ HasPrefix(TrimSpace(in[2]), sPEERS \o SpaceStr)
               \/ HasPrefix(TrimSpace(in[2]), sPEERJOIN \o SpaceStr)
            THEN {in} ELSE {} : in \in PeerInputs }

\* C4: a line beginning with PUNCH-ACK from a source that is not the
\* introducer adds the sender to the Endpoint Set and is not answered.
C4_AckNotAnswered ==
    [][ \A in \in AckInputs :
            ( /\ ~FromIntroducer(in[1])
              /\ RecvStep(in) )
            => (in[1] \in Known' /\ lastAcks' = << >>) ]_vars

\* C5: a probe line from a source that is not the introducer adds the sender
\* to the Endpoint Set, is answered by exactly one PUNCH-ACK <name> <ts> to
\* the sender, and starts no punch task; a punch task is started only by
\* runPeer for the manual address or by a PEERS or PEERJOIN line from the
\* introducer.
C5_ProbeAnswered ==
    [][ /\ \A in \in ProbeInputs :
               ( /\ ~FromIntroducer(in[1])
                 /\ RecvStep(in) )
               => /\ in[1] \in Known'
                  /\ Len(lastAcks') = 1
                  /\ lastAcks'[1].to = in[1]
                  /\ HasPrefix(lastAcks'[1].line, sPUNCHACK \o SpaceStr \o cfg.name \o SpaceStr)
                  /\ tasks' = tasks
        /\ Len(tasks') > Len(tasks) =>
               \/ main.pc = "boot" /\ cfg.manual # << >>
               \/ \E in \in DiscoveryInputs : FromIntroducer(in[1]) /\ RecvStep(in) ]_vars

\* C5 witness: with no introducer and no usable manual address, a probe from
\* 1.1.1.1:9 was answered with one PUNCH-ACK, its sender is known and no
\* punch task exists.
C5_Witness ==
    /\ cfg.introducer = NoAddr
    /\ EpA \in Known
    /\ lastAcks = << [to |-> EpA, line |-> AckLine(PeerName, 7)] >>
    /\ tasks = << >>

\* C6: when a dispatcher send is over, the "no peers" notice has been
\* surfaced iff the send emitted no MSG datagram.
C6_NoticeIffNothingSent ==
    main.pc = "select" => (main.notice <=> Len(main.sent) = 0)

SentTo == { main.sent[i].to : i \in 1..Len(main.sent) }

\* C7: a dispatcher send emits MSG <name>: <text> exactly once to every
\* endpoint that was in the Endpoint Set when the list snapshot was taken
\* and to no other, whether or not earlier sends of the loop failed.
C7_OneMsgPerEndpoint ==
    main.pc \in {"send", "select"} =>
        /\ \A i \in 1..Len(main.sent) :
               /\ main.sent[i].line = sMSG \o SpaceStr \o PeerName \o ColonStr \o SpaceStr \o sHi
               /\ main.sent[i].to \in main.snap
               /\ main.sent[i].to \notin SeqRange(main.ls)
               /\ \A j \in 1..Len(main.sent) : main.sent[i].to = main.sent[j].to => i = j
        /\ SentTo \cup SeqRange(main.ls) = main.snap
        /\ main.pc = "select" => SentTo = main.snap

\* C7 witness: a send to two endpoints is over, the first sendLine failed
\* and the second endpoint was sent to all the same.
C7_Witness ==
    /\ main.pc = "select"
    /\ main.snap = {EpA, EpB}
    /\ Len(main.sent) = 2
    /\ ~main.sent[1].ok

\* C8: a punch task toward E sends PUNCH hello 0 .. PUNCH hello 7 to E in
\* this order, eight datagrams, and PUNCH keepalive only after them.
C8_BurstOfEight ==
    \A k \in 1..Len(tasks) :
        IF tasks[k].phase = "burst" THEN tasks[k].log = << >>
        ELSE /\ Len(tasks[k].log) >= 8
             /\ \A i \in 1..Len(tasks[k].log) :
                    /\ tasks[k].log[i].to = tasks[k].to
                    /\ i <= 8 => tasks[k].log[i].line = HelloLine(i - 1)
                    /\ i > 8 => tasks[k].log[i].line = KeepaliveLine

\* C8 witness: a task toward 1.1.1.1:10 has sent its burst and a keepalive
C8_Witness ==
    \E k \in 1..Len(tasks) :
        /\ tasks[k].to = EpB
        /\ Len(tasks[k].log) = 9
        /\ tasks[k].log[8].line = HelloLine(7)
        /\ tasks[k].log[9].line = KeepaliveLine

InKeepalive(k) == k <= Len(tasks) /\ tasks[k].phase = "keepalive"

TickIs(k, b) == InKeepalive(k) /\ tasks[k].tick = b

\* C9: once the burst toward E is over the keepalive task for E stays: no
\* step ends it or changes its endpoint, it sends to E only, and under fair
\* scheduling it ticks again and again until the process exits.
C9_KeepaliveForever ==
    /\ [][ \A k \in 1..MaxTasks :
               InKeepalive(k) => InKeepalive(k)' /\ tasks'[k].to = tasks[k].to ]_vars
    /\ [](\A k \in 1..Len(tasks) :
              \A i \in 1..Len(tasks[k].log) : tasks[k].log[i].to = tasks[k].to)
    /\ \A k \in 1..MaxTasks :
           /\ TickIs(k, 0) ~> (Exited \/ TickIs(k, 1))
           /\ TickIs(k, 1) ~> (Exited \/ TickIs(k, 0))

\* C9 witness: a keepalive task has ticked twice while the process runs
C9_Witness ==
    \E k \in 1..Len(tasks) :
        /\ tasks[k].phase = "keepalive"
        /\ Len(tasks[k].log) = 9
        /\ tasks[k].tick = 0
        /\ ~Exited

\* C10: no step removes an endpoint from the Endpoint Set.
C10_NeverShrinks ==
    [][ \A key \in DOMAIN addrs : key \in DOMAIN addrs' /\ addrs'[key] = addrs[key] ]_vars

\* C10 witness: the set holds two endpoints and a dispatcher send is over
C10_Witness ==
    /\ Known = {EpA, EpB}
    /\ main.pc = "select"

\* C11: add is idempotent and list is sorted: every key of the Endpoint Set
\* is the canonical string of its endpoint (one entry per string); a probe
\* from a sender already in the set leaves the set unchanged and one from a
\* new sender adds exactly that sender; and every list taken by /peers or by
\* a chat line holds each endpoint of the set once, in ascending order of
\* canonical string.
C11_AddIdempotentListSorted ==
    /\ [](\A k \in DOMAIN addrs : AddrString(addrs[k]) = k)
    /\ [][ \A in \in ProbeInputs :
                ( /\ ~FromIntroducer(in[1])
                  /\ RecvStep(in) )
                => IF in[1] \in Known THEN addrs' = addrs
                   ELSE /\ Known' = Known \cup {in[1]}
                        /\ Cardinality(DOMAIN addrs') = Cardinality(DOMAIN addrs) + 1 ]_vars
    /\ [][ (MainPeers \/ MainChat(sHi)) =>
                /\ Len(main'.ls) = Cardinality(DOMAIN addrs)
                /\ { AddrString(main'.ls[i]) : i \in 1..Len(main'.ls) } = DOMAIN addrs
                /\ \A i \in 1..(Len(main'.ls) - 1) :
                       StrLess(AddrString(main'.ls[i]), AddrString(main'.ls[i + 1])) ]_vars

\* C11 witness: /peers listed 1.1.1.1:10 before 1.1.1.1:9, the order of
\* their strings
C11_Witness ==
    /\ main.pc = "scan"
    /\ main.ls = << EpB, EpA >>
    /\ DOMAIN addrs = { AddrString(EpA), AddrString(EpB) }

\* the endpoint e is a member of room r
IsMember(r, e) ==
    r \in DOMAIN rooms /\ \E k \in DOMAIN rooms[r] : AddrString(rooms[r][k]) = AddrString(e)

\* C12: every entry of a room is stored under the canonical string of its
\* endpoint, so a room holds at most one entry per canonical string; and the
\* critical section of a JOIN from an endpoint that is already a member
\* leaves the room's member count unchanged.
C12_OneEntryPerEndpoint ==
    /\ [](\A r \in DOMAIN rooms : \A k \in DOMAIN rooms[r] : AddrString(rooms[r][k]) = k)
    /\ [][ \A h \in Running :
                (IsMember(h.room, h.from) /\ JoinCrit(h)) =>
                    /\ Cardinality(DOMAIN rooms'[h.room]) = Cardinality(DOMAIN rooms[h.room])
                    /\ IsMember(h.room, h.from)' ]_vars

\* C12 witness: a JOIN from 1.1.1.1:9 found 1.1.1.1:9 and 1.1.1.1:10 in room
\* r and left the room with these two members
C12_Witness ==
    \E h \in JoinHandlers :
        /\ h.pc = "youare"
        /\ h.from = EpA
        /\ h.room = RoomR
        /\ h.seen = {EpA, EpB}
        /\ DOMAIN rooms[RoomR] = {AddrString(EpA), AddrString(EpB)}

\* the message is a JOIN without a name, a JOIN or LEAVE without a room, or
\* names a command other than JOIN and LEAVE
Rejected(msg) ==
    LET parts == Fields(msg)
    IN  \/ Len(parts) < 2
        \/ ToUpper(parts[1]) \notin {sJOIN, sLEAVE}
        \/ ToUpper(parts[1]) = sJOIN /\ Len(parts) < 3

\* C13: the handler of a rejected message has sent no datagram and never
\* enters a JOIN or LEAVE section, and its steps leave the registry and the
\* lock unchanged.
C13_RejectedNoEffect ==
    /\ [](\A h \in Running :
              Rejected(h.msg) => h.pc \in {"start", "done"} /\ h.out = << >>)
    /\ [][ \A h \in Running :
                (Rejected(h.msg) /\ (Dispatch(h) \/ LeaveReturn(h))) =>
                    rooms' = rooms /\ mu' = mu /\ joined' = joined ]_vars

\* C13 witness: the handler of "JOIN r" from 1.1.1.2:7 is at its return
\* while room r holds 1.1.1.1:9 alone
C13_Witness ==
    /\ \E h \in Running :
           h.msg = lineJoinNoName /\ h.from = EpC /\ h.pc = "done" /\ h.out = << >>
    /\ DOMAIN rooms = {RoomR}
    /\ DOMAIN rooms[RoomR] = {AddrString(EpA)}

\* the receive loop has failed and its error waits in the channel
FailurePending == rx = "failed" /\ errs = 1

\* C14: the channel never holds more than one error, and once the receive
\* loop has failed the next user action the interactive loop completes, the
\* /peers command or the end of a chat line's send, ends runPeer with that
\* error.
C14_FailureEndsNextAction ==
    /\ [](errs <= 1)
    /\ [][ (FailurePending /\ (MainPeers \/ MainSelect)) =>
                main'.pc = "exit" /\ main'.result = "err" ]_vars

\* the JOIN and the LEAVE of the run have both been handled: the handler of
\* the JOIN has returned and the handler of the LEAVE is at its return
BothHandled ==
    /\ Running # {}
    /\ \A h \in Running : h.cmd = sLEAVE /\ h.pc = "done"

\* C15: when JOIN r from E was received, LEAVE r from E was received after
\* it, and both have been handled, E is not a member of r and the registry
\* has no entry for r.
C15_JoinThenLeave ==
    BothHandled =>
        \A h \in Running : ~IsMember(h.room, h.from) /\ h.room \notin DOMAIN rooms

\* C16: no two punch tasks of a peer are directed at the same endpoint.
C16_OneTaskPerEndpoint ==
    \A i, j \in 1..Len(tasks) :
        AddrString(tasks[i].to) = AddrString(tasks[j].to) => i = j

\* the positions at which a handler holds in.mu
CritPcs == {"j_crit", "l_crit", "b_crit"}

\* the handlers that hold in.mu
Holders == { h \in Running : h.pc \in CritPcs }

\* C17: at most one handler is inside a registry critical section and the
\* lock is held exactly then; a step in which a handler sends a datagram is
\* taken by a handler that does not hold the lock; the registry changes, and
\* a handler's snapshot of it is taken, only in a step of the handler that
\* holds the lock.
C17_NoSendUnderLock ==
    /\ [](/\ Cardinality(Holders) <= 1
          /\ \A h \in Holders : CopiesIn(h, handlers) = 1
          /\ mu <=> Holders # {})
    /\ [][ LET old == BagToSet(handlers (-) handlers')
               new == BagToSet(handlers' (-) handlers)
           IN  /\ \A h \in old, g \in new :
                      /\ g.out # h.out => h.pc \notin CritPcs /\ g.pc \notin CritPcs
                      /\ g.peers # h.peers => h.pc = "j_crit"
                      /\ Len(g.addrs) > Len(h.addrs) => h.pc = "b_crit"
               /\ rooms' # rooms => mu /\ \E h \in old : h.pc \in {"j_crit", "l_crit"} ]_vars

\* C17 witness: a handler has sent PEERJOIN and has more to send while
\* another handler holds the lock in its JOIN section
C17_Witness ==
    /\ mu
    /\ \E h \in Running : h.pc = "j_crit"
    /\ \E g \in Running :
           g.pc = "b_send" /\ g.addrs # << >> /\ SentWith(g, sPEERJOIN) # << >>

\* discovery lines of the introducer and the endpoints they name, in order
Discovered ==
    { << linePeersAB, << EpA, EpB >> >>,
      << linePeersMixed, << EpB >> >>,
      << linePeerJoinA, << EpA >> >> }

\* C18: a receive iteration on a PEERS or PEERJOIN line from the introducer
\* adds every endpoint the line names in a non-empty, parseable token to the
\* Endpoint Set and starts one punch task toward each, in the line's order;
\* empty and unparseable tokens add nothing and do not stop the others.
C18_DiscoveryTokens ==
    [][ \A d \in Discovered :
            ( /\ cfg.introducer = EpI
              /\ RecvStep(<< EpI, d[1] >>) )
            => /\ Known' = Known \cup SeqRange(d[2])
               /\ Len(tasks') = Len(tasks) + Len(d[2])
               /\ SubSeq(tasks', 1, Len(tasks)) = tasks
               /\ \A i \in 1..Len(d[2]) :
                      /\ tasks'[Len(tasks) + i].to = d[2][i]
                      /\ tasks'[Len(tasks) + i].phase = "burst"
                      /\ tasks'[Len(tasks) + i].log = << >> ]_vars

\* C18 witness: from "PEERS ,x:y, 1.1.1.1:10" the peer learned 1.1.1.1:10
\* alone and has one punch task, toward it
C18_Witness ==
    /\ cfg.introducer = EpI
    /\ cfg.manual = << >>
    /\ Known = {EpB}
    /\ Len(tasks) = 1
    /\ tasks[1].to = EpB

\* an introducer is configured and e is its endpoint
IsIntroducer(e) == cfg.introducer # NoAddr /\ e = cfg.introducer

\* the datagrams that come from the introducer's address
IntroducerInputs == {EpI} \X ControlLines

\* C19: with an introducer configured, a receive iteration on a datagram from
\* the introducer's endpoint, whatever its text, sends no datagram, displays
\* no chat message and no unclassified line, and the introducer's endpoint
\* is never in the Endpoint Set.
C19_IntroducerLinesOnly ==
    /\ [](cfg.introducer # NoAddr => cfg.introducer \notin Known)
    /\ [][ \A in \in IntroducerInputs :
                (IsIntroducer(in[1]) /\ RecvStep(in)) =>
                    /\ lastAcks' = << >>
                    /\ lastEvent' \notin {"chat", "debug"}
                    /\ in[1] \notin Known' ]_vars

\* C19 witness: the peer has displayed its observed address from a YOUARE
\* line of the introducer; it knows no endpoint and has sent no reply
C19_Witness ==
    /\ cfg.introducer = EpI
    /\ rx = "read"
    /\ lastEvent = "youare"
    /\ lastAcks = << >>
    /\ addrs = << >>

\* the datagrams whose line does not begin with PUNCH: YOUARE, PEERS,
\* PEERJOIN, MSG and unclassified lines
NonPunchInputs ==
    UNION { IF HasPrefix(TrimSpace(in[2]), sPUNCH) THEN {} ELSE {in} : in \in PeerInputs }

\* C20: a receive iteration on a YOUARE, PEERS, PEERJOIN, MSG or unclassified
\* line whose source is not the configured introducer leaves the Endpoint
\* Set and the punch tasks unchanged and sends no datagram.
C20_ForeignLinesNoEffect ==
    [][ \A in \in NonPunchInputs :
            (~IsIntroducer(in[1]) /\ RecvStep(in)) =>
                /\ addrs' = addrs
                /\ tasks' = tasks
                /\ lastAcks' = << >>
                /\ lastEvent' \in {"chat", "debug"} ]_vars

\* C20 witness: a peer without introducer has displayed an unclassified line;
\* it knows no endpoint, has no punch task and has sent no reply
C20_Witness ==
    /\ cfg.introducer = NoAddr
    /\ cfg.manual = sBogus
    /\ rx = "read"
    /\ lastEvent = "debug"
    /\ lastAcks = << >>
    /\ addrs = << >>
    /\ tasks = << >>

\* the datagram d names its own destination as a peer: a PEERS list that
\* holds the destination, or a PEERJOIN that announces it
NamesDestination(d) ==
    \/ /\ HasPrefix(d.line, sPEERS \o SpaceStr)
       /\ AddrString(d.to) \in SeqRange(Split(TrimPrefix(d.line, sPEERS \o SpaceStr), ","))
    \/ /\ HasPrefix(d.line, sPEERJOIN \o SpaceStr)
       /\ Fields(d.line)[3] = AddrString(d.to)

\* C22: no datagram of any handler names its own destination as a peer: no
\* PEERS sent to E lists E and no PEERJOIN sent to E announces E.
C22_NeverOwnAddress ==
    \A h \in Running : \A i \in 1..Len(h.out) : ~NamesDestination(h.out[i])

\* C22 witness: 1.1.1.1:9, a member of room r together with 1.1.1.1:10,
\* joined r again; it was sent PEERS naming 1.1.1.1:10 alone and its
\* PEERJOIN went to 1.1.1.1:10 alone
C22_Witness ==
    \E h \in JoinHandlers :
        /\ h.from = EpA /\ h.room = RoomR
        /\ h.seen = {EpA, EpB}
        /\ h.pc = "b_send" /\ h.addrs = << >>
        /\ h.out = << YouAreOf(h),
                      [to |-> EpA, line |-> sPEERS \o SpaceStr \o AddrString(EpB)],
                      [to |-> EpB, line |-> PeerJoinLine(h)] >>

\* C23: whenever the lock is free, every room of the registry has at least
\* one member.
C23_NoEmptyRoom ==
    ~mu => \A r \in DOMAIN rooms : DOMAIN rooms[r] # {}

\* C23 witness: a LEAVE has emptied and removed its room while the other
\* room stays registered with its member, and the lock is free
C23_Witness ==
    /\ ~mu
    /\ \E h \in LeaveHandlers : h.pc = "done" /\ h.emptied /\ h.room \notin DOMAIN rooms
    /\ \E r \in DOMAIN rooms : DOMAIN rooms[r] # {}

\* the room a JOIN names
JoinRoomOf(h) == Fields(h.msg)[2]

\* both peers' JOINs for one room have reached the introducer
SameRoomJoins ==
    \E h1 \in Running, h2 \in Running :
        h1.from = EpA /\ h2.from = EpB /\ JoinRoomOf(h1) = JoinRoomOf(h2)

\* p's Endpoint Set holds q's observed endpoint
Knows(p, q) == AddrString(q) \in DOMAIN procs[p].addrs /\ procs[p].addrs[AddrString(q)] = q

\* C21: once the introducer has both peers' JOINs for the same room, then,
\* with every handler scheduled and every datagram read, eventually each
\* peer's set holds the other's observed endpoint
C21_EachLearnsTheOther == SameRoomJoins ~> (Knows(EpA, EpB) /\ Knows(EpB, EpA))

\* both peers know each other, and EpB was told of EpA twice: by its PEERS
\* reply and by the broadcast of EpA's handler, which read the room after
\* EpB's insert
C21_Witness ==
    /\ SameRoomJoins
    /\ Knows(EpA, EpB) /\ Knows(EpB, EpA)
    /\ procs[EpB].tasks = << EpA, EpA >>
    /\ procs[EpA].tasks = << EpB >>

====
